---- MODULE Spec2Model ----
(***************************************************************************)
(* Layout and redistribution of a distributed tensor (heat.core.tensor).   *)
(*                                                                         *)
(* A Tensor is held by `size` processes (ranks 0 .. size-1).  Each rank    *)
(* owns a local buffer, the global shape, a dtype tag, the split axis (or  *)
(* None), a device tag and the communicator.  Tensor.resplit changes the   *)
(* split axis; it is modelled branch by branch from tensor.py, as are      *)
(* Tensor.__setitem__, Tensor.__getitem__, Tensor.is_distributed and the   *)
(* conversions Tensor.astype, Tensor.cpu and Tensor.gpu.  The              *)
(* communicator (chunk, counts_displs_shape, Allgatherv, Alltoallv) and    *)
(* sanitize_axis are modelled from the specification's sections 3, 4.1 and *)
(* 4.2, at the places where tensor.py calls them.                          *)
(*                                                                         *)
(* Arrays are two-dimensional.  Python's 0-based axes and ranks are kept;  *)
(* a shape is the pair <<rows, columns>>, so shape[a + 1] is the extent of *)
(* axis a.  A buffer is its shape with its elements in row-major order.    *)
(***************************************************************************)
EXTENDS Integers, Sequences, FiniteSets, TLC

VARIABLES
    tensor,   \* tensor[p]: the Tensor object of rank p
    pc,       \* pc[p]: where rank p is: "idle", inside a collective, or "raised"
    req,      \* req[p]: the buffers and descriptors rank p has posted to a collective
    script,   \* the resplit targets the (SPMD) program has issued so far, in order
    log,      \* log[p]: one record per resplit call of rank p (history)
    item      \* item[p]: one record per __setitem__, __getitem__ or conversion call of rank p (history)

vars == <<tensor, pc, req, script, log, item>>

----------------------------------------------------------------------------
(* Bounds of the model *)

MaxProcs == 2
MaxExtent == 2
MaxCalls == 2

----------------------------------------------------------------------------
(* Values *)

\* axis=None of resplit(self, axis=None): "unsplit".
None == -9

Axes == {0, 1}

\* The split axes a tensor can be constructed with.
Splits == {None} \cup Axes

\* The arguments handed to resplit: None, the two axes, and one past the last.
AxisInputs == {None, 0, 1, 2}

DTypes == {"float32", "int32"}

Devices == {"cpu", "gpu"}

\* The (dtype, device) tags tensors are constructed with: each dtype and each
\* device occurs (the layout does not depend on either).
Tags == {tg \in DTypes \X Devices : tg[1] = "int32" <=> tg[2] = "gpu"}

\* What a cell of a freshly allocated (torch.empty) buffer may turn out to
\* hold when nothing has been written to it: arbitrary memory.
Garbage == {0, 1}

NoReq == [op |-> "none"]

Other(a) == 1 - a

Min(a, b) == IF a < b THEN a ELSE b

Max(a, b) == IF a > b THEN a ELSE b

Numel(shape) == shape[1] * shape[2]

\* The element type torch.empty gives when no dtype is passed.
DefaultEType == "float32"

----------------------------------------------------------------------------
(* Local buffers (torch.Tensor) *)

\* Row i, column j of a buffer (0-based).
At(buf, i, j) == buf.data[i * buf.shape[2] + j + 1]

\* torch.empty(shape): default element type, on the host.  Its content is
\* arbitrary; it is decided (from Garbage) when the collective that receives
\* into the buffer completes, for the cells the collective does not write.
Empty(shape) ==
    [shape |-> shape,
     data  |-> [k \in 1..Numel(shape) |-> 0],
     etype |-> DefaultEType,
     dev   |-> "cpu"]

\* The logical array every layout describes: element (i, j) is i * cols + j + 1.
Global(shape, etype, dev) ==
    [shape |-> shape,
     data  |-> [k \in 1..Numel(shape) |-> k],
     etype |-> etype,
     dev   |-> dev]

\* buf[start:stop] along `axis`, with Python's clamping of the bounds.
SliceBuf(buf, axis, start, stop) ==
    LET ext == buf.shape[axis + 1]
        lo  == Min(Max(start, 0), ext)
        hi  == Max(Min(Max(stop, 0), ext), lo)
        ns  == [buf.shape EXCEPT ![axis + 1] = hi - lo]
    IN  [buf EXCEPT
            !.shape = ns,
            !.data  = [k \in 1..Numel(ns) |->
                          LET i == (k - 1) \div ns[2]
                              j == (k - 1) % ns[2]
                          IN  IF axis = 0 THEN At(buf, i + lo, j)
                                          ELSE At(buf, i, j + lo)]]

----------------------------------------------------------------------------
(* Partition calculator (communicator: counts_displs_shape, chunk) *)

Ranks(size) == 0..(size - 1)

\* Elements of rank r when `extent` is divided over `size` ranks: even
\* division, the remainder to the lowest ranks.
Count(extent, size, r) ==
    (extent \div size) + (IF r < extent % size THEN 1 ELSE 0)

RECURSIVE Displ(_, _, _)
\* Displacement of rank r: the counts of the ranks before it.
Displ(extent, size, r) ==
    IF r = 0 THEN 0
    ELSE Displ(extent, size, r - 1) + Count(extent, size, r - 1)

\* A partition request is malformed when the process count is not positive
\* or the extent to divide is negative: the calculator then fails with
\* InvalidPartition.
InvalidPartition(extent, size) == size <= 0 \/ extent < 0

\* comm.counts_displs_shape(shape, axis): the per-rank counts and
\* displacements along `axis` (its third result is not used by resplit).
counts_displs_shape(shape, axis, size) ==
    [counts |-> [r \in Ranks(size) |-> Count(shape[axis + 1], size, r)],
     displs |-> [r \in Ranks(size) |-> Displ(shape[axis + 1], size, r)]]

\* comm.chunk(shape, split) on rank `rank`: the offset, the local shape and
\* the slice (axis, start, stop) of this rank's part of the global array.
chunk(shape, split, rank, size) ==
    IF split = None
    THEN [offset |-> 0, lshape |-> shape, axis |-> 0, start |-> 0, stop |-> shape[1]]
    ELSE LET start == Displ(shape[split + 1], size, rank)
             n     == Count(shape[split + 1], size, rank)
         IN  [offset |-> start,
              lshape |-> [shape EXCEPT ![split + 1] = n],
              axis   |-> split,
              start  |-> start,
              stop   |-> start + n]

\* sanitize_axis(shape, axis): the axis if it is None or in range; otherwise
\* the call raises (ok is FALSE).
sanitize_axis(shape, axis) ==
    [ok   |-> axis = None \/ (0 <= axis /\ axis < Len(shape)),
     axis |-> axis]

----------------------------------------------------------------------------
(* Collective transport (communicator: Allgatherv, Alltoallv) *)

\* Position of element (i, j) of an array of shape `shape` when axis `ax` is
\* the outermost (slowest running) one.
PIdx(shape, ax, i, j) == IF ax = 0 THEN i * shape[2] + j ELSE j * shape[1] + i

\* The element of `buf` at position k of the order in which axis `ax` is
\* outermost.
PElem(buf, ax, k) ==
    IF ax = 0 THEN buf.data[k + 1]
    ELSE At(buf, k % buf.shape[1], k \div buf.shape[1])

\* Elements per unit of axis `ax`.
Stride(shape, ax) == shape[Other(ax) + 1]

\* The axis a gather assembles along: the receive axis, which defaults to the
\* send axis 0 when none is given.
GatherAxis(recv_axis) == IF recv_axis = None THEN 0 ELSE recv_axis

\* Mutant of Mismatch: the transport compares nothing.
MismatchIgnored(reqs) == FALSE

\* The ranks that entered a collective do not describe the same array over
\* the same group: a table of counts is not one entry per rank of the group,
\* or two ranks pass different tables, different shapes of the assembled
\* array or buffers of different element types.  The transport reports it
\* as an error.
Mismatch(reqs) ==
    \E r, s \in DOMAIN reqs :
        \/ DOMAIN reqs[r].recv_counts # DOMAIN reqs
        \/ reqs[r].recv_counts # reqs[s].recv_counts
        \/ reqs[r].op = "Allgatherv" /\ reqs[r].recvbuf.shape # reqs[s].recvbuf.shape
        \/ reqs[r].op = "Alltoallv" /\ reqs[r].send_counts # reqs[s].send_counts
        \/ reqs[r].sendbuf.etype # reqs[s].sendbuf.etype
        \/ reqs[r].recvbuf.etype # reqs[s].recvbuf.etype

\* The group has one process: a collective is then a copy from the send
\* buffer of that process into its receive buffer.
Alone(reqs) == Cardinality(DOMAIN reqs) = 1

\* The receive buffer rb after the elements of the send buffer sb were copied
\* into it, in order; cells the copy does not reach keep what rb held, g.
LocalCopy(rb, sb, g) ==
    [rb EXCEPT !.data =
        [k \in 1..Numel(rb.shape) |->
            IF k <= Numel(sb.shape) THEN sb.data[k] ELSE g]]

\* Among several processes, some rank sends more elements than a receiver
\* announced for it: the receive is truncated, which the transport reports
\* as an error.
Truncated(reqs) ==
    /\ ~Alone(reqs)
    /\ \E r, s \in DOMAIN reqs :
          Numel(reqs[s].sendbuf.shape)
              > reqs[r].recv_counts[s]
                  * Stride(reqs[r].recvbuf.shape, GatherAxis(reqs[r].recv_axis))

\* Mutant of GatherInto: a group of one process is served like any other, so
\* its chunk is cut to the units announced for it.
GatherIntoCutWhenAlone(r, reqs, g) ==
    LET rq   == reqs[r]
        rb   == rq.recvbuf
        ax   == GatherAxis(rq.recv_axis)
        st   == Stride(rb.shape, ax)
        Lo(s)  == rq.recv_displs[s] * st
        Len_(s) == Min(Numel(reqs[s].sendbuf.shape), rq.recv_counts[s] * st)
        From(f) == {s \in DOMAIN reqs : Lo(s) <= f /\ f < Lo(s) + Len_(s)}
    IN  [rb EXCEPT !.data =
            [k \in 1..Numel(rb.shape) |->
                LET i == (k - 1) \div rb.shape[2]
                    j == (k - 1) % rb.shape[2]
                    f == PIdx(rb.shape, ax, i, j)
                IN  IF From(f) = {} THEN g
                    ELSE LET s == CHOOSE x \in From(f) :
                                     \A y \in From(f) : y <= x
                         IN  PElem(reqs[s].sendbuf, ax, f - Lo(s))]]

\* Rank r receives: the chunk of rank s lands at displacement displs[s] along
\* the gather axis, as many elements as s sent (at most the counts[s] units
\* announced for it, and what lies inside the buffer); cells no chunk reaches
\* keep what the buffer held, g.  The elements arrive with their values, in
\* a buffer of the receiver's element type.  A group of one process copies.
GatherInto(r, reqs, g) ==
    LET rq   == reqs[r]
        rb   == rq.recvbuf
        ax   == GatherAxis(rq.recv_axis)
        st   == Stride(rb.shape, ax)
        Lo(s)  == rq.recv_displs[s] * st
        Len_(s) == Min(Numel(reqs[s].sendbuf.shape), rq.recv_counts[s] * st)
        From(f) == {s \in DOMAIN reqs : Lo(s) <= f /\ f < Lo(s) + Len_(s)}
    IN  IF Alone(reqs) THEN LocalCopy(rb, rq.sendbuf, g)
        ELSE
        [rb EXCEPT !.data =
            [k \in 1..Numel(rb.shape) |->
                LET i == (k - 1) \div rb.shape[2]
                    j == (k - 1) % rb.shape[2]
                    f == PIdx(rb.shape, ax, i, j)
                IN  IF From(f) = {} THEN g
                    ELSE LET s == CHOOSE x \in From(f) :
                                     \A y \in From(f) : y <= x
                         IN  PElem(reqs[s].sendbuf, ax, f - Lo(s))]]

\* Rank r receives: along the receive axis the piece of rank s lands at
\* recv_displs[s] (recv_counts[s] units); it is the slice
\* [send_displs[r], send_displs[r] + send_counts[r]) that s cut for r along
\* the send axis.  Cells no piece reaches keep what the buffer held, g.  The
\* elements arrive with their values, in a buffer of the receiver's element
\* type.  A group of one process copies.
ExchangeInto(r, reqs, g) ==
    LET rq == reqs[r]
        rb == rq.recvbuf
        ra == rq.recv_axis
        From(xo) == {s \in DOMAIN reqs :
                        /\ rq.recv_displs[s] <= xo
                        /\ xo < rq.recv_displs[s] + rq.recv_counts[s]}
    IN  IF Alone(reqs) THEN LocalCopy(rb, rq.sendbuf, g)
        ELSE
        [rb EXCEPT !.data =
            [k \in 1..Numel(rb.shape) |->
                LET i  == (k - 1) \div rb.shape[2]
                    j  == (k - 1) % rb.shape[2]
                    xo == IF ra = 0 THEN i ELSE j
                    xn == IF ra = 0 THEN j ELSE i
                IN  IF From(xo) = {} THEN g
                    ELSE LET s  == CHOOSE x \in From(xo) :
                                      \A y \in From(xo) : y <= x
                             sb == reqs[s].sendbuf
                             lo == xo - rq.recv_displs[s]
                             ln == reqs[s].send_displs[r] + xn
                             si == IF ra = 0 THEN lo ELSE ln
                             sj == IF ra = 0 THEN ln ELSE lo
                         IN  IF /\ xn < reqs[s].send_counts[r]
                                /\ si < sb.shape[1]
                                /\ sj < sb.shape[2]
                             THEN At(sb, si, sj)
                             ELSE g]]

----------------------------------------------------------------------------
(* The Tensor and its construction *)

Procs == DOMAIN tensor

\* Tensor(array, gshape, dtype, split, device, comm)
Tensor(array, gshape, dtype, split, device, comm) ==
    [array  |-> array,
     gshape |-> gshape,
     dtype  |-> dtype,
     split  |-> split,
     device |-> device,
     comm   |-> comm]

\* Tensor.lshape
lshape(t) == t.array.shape

\* The part of the logical array rank `rank` holds under split axis `split`.
LocalPart(gshape, split, dtype, device, rank, size) ==
    LET c == chunk(gshape, split, rank, size)
    IN  SliceBuf(Global(gshape, dtype, device), c.axis, c.start, c.stop)

\* The global shapes: every small one, and the (4, 5) of resplit's docstring.
Shapes == ((0..MaxExtent) \X (0..MaxExtent)) \cup {<<4, 5>>}

Init ==
    \E size \in 1..MaxProcs, gs \in Shapes, sp \in Splits, tg \in Tags :
        /\ tensor = [p \in Ranks(size) |->
                        Tensor(LocalPart(gs, sp, tg[1], tg[2], p, size),
                               gs, tg[1], sp, tg[2],
                               [rank |-> p, size |-> size])]
        /\ pc = [p \in Ranks(size) |-> "idle"]
        /\ req = [p \in Ranks(size) |-> NoReq]
        /\ script = << >>
        /\ log = [p \in Ranks(size) |-> << >>]
        /\ item = [p \in Ranks(size) |-> << >>]

----------------------------------------------------------------------------
(* Tensor.is_distributed *)

\* self.comm.is_distributed(): the group has more than one process.
comm_is_distributed(comm) == comm.size > 1

\* Mutant of is_distributed: the communicator is not asked.
is_distributed_any_split(t) == t.split # None

\* return self.split is not None and self.comm.is_distributed()
is_distributed(t) == t.split # None /\ comm_is_distributed(t.comm)

----------------------------------------------------------------------------
(* Tensor.resplit *)

\* gathered = torch.empty(self.shape)
gathered(t) == Empty(t.gshape)

\* Mutant of recv_counts_displs: the table is computed from the local shape.
recv_counts_displs_local(t) == counts_displs_shape(lshape(t), t.split, t.comm.size)

\* Mutant of recv_counts_displs: counts and displacements are unpacked in
\* the wrong order.
recv_counts_displs_swapped(t) ==
    LET cd == counts_displs_shape(t.gshape, t.split, t.comm.size)
    IN  [counts |-> cd.displs, displs |-> cd.counts]

\* recv_counts, recv_displs, _ = self.comm.counts_displs_shape(self.shape, self.split)
recv_counts_displs(t) == counts_displs_shape(t.gshape, t.split, t.comm.size)

\* Mutant of send_counts_displs: the send side carries the table of the
\* current layout, along the old split axis.
send_counts_displs_old_layout(t, axis) ==
    counts_displs_shape(t.gshape, t.split, t.comm.size)

\* send_counts, send_displs, _ = self.comm.counts_displs_shape(self.lshape, axis)
send_counts_displs(t, axis) == counts_displs_shape(lshape(t), axis, t.comm.size)

\* Mutant of slices: every rank takes the part of rank 0.
slices_of_rank0(t, axis) == chunk(t.gshape, axis, 0, t.comm.size)

\* _, _, slices = self.comm.chunk(self.shape, axis)
slices(t, axis) == chunk(t.gshape, axis, t.comm.rank, t.comm.size)

\* Mutant of output_shape: the chunk is taken along the old split axis.
output_shape_old_split(t, axis) ==
    chunk(t.gshape, t.split, t.comm.rank, t.comm.size).lshape

\* _, output_shape, _ = self.comm.chunk(self.shape, axis)
output_shape(t, axis) == chunk(t.gshape, axis, t.comm.rank, t.comm.size).lshape

\* redistributed = torch.empty(output_shape)
redistributed(t, axis) == Empty(output_shape(t, axis))

\* torch.empty(shape) raises RuntimeError for a negative extent.
negative_dimension(shape) == \E k \in DOMAIN shape : shape[k] < 0

\* The partition a call resplit(axis) that changes the split asks for first
\* is malformed, and the call got as far as asking: the gather branch
\* allocates `gathered` and then divides the extent of the current split
\* axis (counts_displs_shape, line 1081); the other two branches begin by
\* dividing the extent of the target axis (chunk, lines 1089 and 1095).
partition_raises(t, axis) ==
    IF axis = None
    THEN /\ ~negative_dimension(t.gshape)
         /\ InvalidPartition(t.gshape[t.split + 1], t.comm.size)
    ELSE InvalidPartition(t.gshape[axis + 1], t.comm.size)

\* torch.empty raises in a call resplit(axis) that changes the split: for
\* `gathered` (line 1079) at the start of the gather branch, for
\* `redistributed` (line 1096) after the chunk of the exchange branch.
empty_raises(t, axis) ==
    IF axis = None
    THEN negative_dimension(t.gshape)
    ELSE /\ t.split # None
         /\ ~partition_raises(t, axis)
         /\ negative_dimension(output_shape(t, axis))

\* Rank p starts its next resplit call.  Every rank runs the same program:
\* the first rank to reach call k chooses its target, the others follow it.
Calls(p, axis) ==
    /\ pc[p] \in {"idle", "raised"}
    /\ Len(log[p]) < MaxCalls
    /\ IF Len(log[p]) < Len(script)
       THEN axis = script[Len(log[p]) + 1] /\ script' = script
       ELSE script' = Append(script, axis)

\* What a call hands back to its caller: `return self` hands back the
\* tensor it was called on; a call that is pending or has raised, nothing.
Returns(outcome) == IF outcome = "returned" THEN "self" ELSE "nothing"

Logged(p, axis, case, outcome) ==
    log' = [log EXCEPT ![p] = Append(@,
                [axis |-> axis, case |-> case,
                 before |-> tensor[p], outcome |-> outcome,
                 ret |-> Returns(outcome)])]

Finished(p, outcome) ==
    log' = [log EXCEPT ![p][Len(log[p])].outcome = outcome,
                       ![p][Len(log[p])].ret = Returns(outcome)]

\* Mutant of ResplitRaise: the axis is checked after it has been assigned.
ResplitRaiseAfterAssign(p, axis) ==
    /\ Calls(p, axis)
    /\ ~sanitize_axis(tensor[p].gshape, axis).ok
    /\ tensor' = [tensor EXCEPT ![p].split = axis]
    /\ pc' = [pc EXCEPT ![p] = "raised"]
    /\ Logged(p, axis, "invalid", "ValueError")
    /\ UNCHANGED <<req, item>>

\* axis = sanitize_axis(self.shape, axis) raises: the axis is out of range.
ResplitRaise(p, axis) ==
    /\ Calls(p, axis)
    /\ ~sanitize_axis(tensor[p].gshape, axis).ok
    /\ pc' = [pc EXCEPT ![p] = "raised"]
    /\ Logged(p, axis, "invalid", "ValueError")
    /\ UNCHANGED <<tensor, req, item>>

\* Mutant of ResplitNoop: the early out is missing, so an unchanged target
\* goes on to a collective.
ResplitNoopFallsThrough(p, axis) ==
    /\ Calls(p, axis)
    /\ sanitize_axis(tensor[p].gshape, axis).ok
    /\ axis = tensor[p].split
    /\ req' = [req EXCEPT ![p] =
                  [op          |-> "Allgatherv",
                   sendbuf     |-> tensor[p].array,
                   recvbuf     |-> tensor[p].array,
                   recv_counts |-> [r \in Procs |-> 0],
                   recv_displs |-> [r \in Procs |-> 0],
                   recv_axis   |-> axis]]
    /\ pc' = [pc EXCEPT ![p] = "Allgatherv"]
    /\ Logged(p, axis, "gather", "pending")
    /\ UNCHANGED <<tensor, item>>

\* Mutant of ResplitNoop: a rank whose local buffer is empty has nothing to
\* send and returns early as well.
ResplitNoopWhenEmpty(p, axis) ==
    /\ Calls(p, axis)
    /\ sanitize_axis(tensor[p].gshape, axis).ok
    /\ axis = tensor[p].split \/ Numel(lshape(tensor[p])) = 0
    /\ pc' = [pc EXCEPT ![p] = "idle"]
    /\ Logged(p, axis, "noop", "returned")
    /\ UNCHANGED <<tensor, req, item>>

\* if axis == self.split: return self
ResplitNoop(p, axis) ==
    /\ Calls(p, axis)
    /\ sanitize_axis(tensor[p].gshape, axis).ok
    /\ axis = tensor[p].split
    /\ pc' = [pc EXCEPT ![p] = "idle"]
    /\ Logged(p, axis, "noop", "returned")
    /\ UNCHANGED <<tensor, req, item>>

\* Mutant of ResplitGather: self.__split = None is assigned before the
\* collective is entered.
ResplitGatherSplitFirst(p, axis) ==
    LET t    == tensor[p]
        recv == recv_counts_displs(t)
    IN  /\ Calls(p, axis)
        /\ sanitize_axis(t.gshape, axis).ok
        /\ axis # t.split
        /\ axis = None
        /\ ~partition_raises(t, axis)
        /\ ~empty_raises(t, axis)
        /\ req' = [req EXCEPT ![p] =
                      [op          |-> "Allgatherv",
                       sendbuf     |-> t.array,
                       recvbuf     |-> gathered(t),
                       recv_counts |-> recv.counts,
                       recv_displs |-> recv.displs,
                       recv_axis   |-> axis]]
        /\ pc' = [pc EXCEPT ![p] = "Allgatherv"]
        /\ Logged(p, axis, "gather", "pending")
        /\ tensor' = [tensor EXCEPT ![p].split = None]
        /\ UNCHANGED item

\* if axis is None: allocate `gathered`, compute the receive descriptor of
\* the current layout and enter Allgatherv.
ResplitGather(p, axis) ==
    LET t    == tensor[p]
        recv == recv_counts_displs(t)
    IN  /\ Calls(p, axis)
        /\ sanitize_axis(t.gshape, axis).ok
        /\ axis # t.split
        /\ axis = None
        /\ ~partition_raises(t, axis)
        /\ ~empty_raises(t, axis)
        /\ req' = [req EXCEPT ![p] =
                      [op          |-> "Allgatherv",
                       sendbuf     |-> t.array,
                       recvbuf     |-> gathered(t),
                       recv_counts |-> recv.counts,
                       recv_displs |-> recv.displs,
                       recv_axis   |-> axis]]
        /\ pc' = [pc EXCEPT ![p] = "Allgatherv"]
        /\ Logged(p, axis, "gather", "pending")
        /\ UNCHANGED <<tensor, item>>

\* elif self.split is None: slice the local (complete) copy.
ResplitSlice(p, axis) ==
    LET t  == tensor[p]
        sl == slices(t, axis)
    IN  /\ Calls(p, axis)
        /\ sanitize_axis(t.gshape, axis).ok
        /\ axis # t.split
        /\ axis # None
        /\ t.split = None
        /\ ~partition_raises(t, axis)
        /\ ~empty_raises(t, axis)
        /\ tensor' = [tensor EXCEPT
                         ![p].array = SliceBuf(t.array, sl.axis, sl.start, sl.stop),
                         ![p].split = axis]
        /\ pc' = [pc EXCEPT ![p] = "idle"]
        /\ Logged(p, axis, "slice", "returned")
        /\ UNCHANGED <<req, item>>

\* else: allocate `redistributed`, compute the send and receive descriptors
\* and enter Alltoallv.
ResplitExchange(p, axis) ==
    LET t    == tensor[p]
        send == send_counts_displs(t, axis)
        recv == recv_counts_displs(t)
    IN  /\ Calls(p, axis)
        /\ sanitize_axis(t.gshape, axis).ok
        /\ axis # t.split
        /\ axis # None
        /\ t.split # None
        /\ ~partition_raises(t, axis)
        /\ ~empty_raises(t, axis)
        /\ req' = [req EXCEPT ![p] =
                      [op          |-> "Alltoallv",
                       sendbuf     |-> t.array,
                       send_counts |-> send.counts,
                       send_displs |-> send.displs,
                       recvbuf     |-> redistributed(t, axis),
                       recv_counts |-> recv.counts,
                       recv_displs |-> recv.displs,
                       axis        |-> axis,
                       recv_axis   |-> t.split]]
        /\ pc' = [pc EXCEPT ![p] = "Alltoallv"]
        /\ Logged(p, axis, "exchange", "pending")
        /\ UNCHANGED <<tensor, item>>

\* Mutant of Allgatherv: the ranks that have entered complete among
\* themselves, without waiting for the others.
AllgathervNoBarrier ==
    LET In   == {p \in Procs : pc[p] = "Allgatherv"}
        reqs == [p \in In |-> req[p]]
    IN  /\ In # {}
        /\ \E g \in [In -> Garbage] :
              req' = [p \in Procs |->
                         IF p \in In
                         THEN [req[p] EXCEPT !.recvbuf = GatherInto(p, reqs, g[p])]
                         ELSE req[p]]
        /\ pc' = [p \in Procs |-> IF p \in In THEN "gathered" ELSE pc[p]]
        /\ UNCHANGED <<tensor, script, log, item>>

\* The collective completes once every rank of the group has entered it,
\* unless the ranks' descriptors disagree or a receive would be truncated.
Allgatherv ==
    /\ \A p \in Procs : pc[p] = "Allgatherv"
    /\ ~Mismatch(req)
    /\ ~Truncated(req)
    /\ \E g \in [Procs -> Garbage] :
          req' = [p \in Procs |->
                     [req[p] EXCEPT !.recvbuf = GatherInto(p, req, g[p])]]
    /\ pc' = [p \in Procs |-> "gathered"]
    /\ UNCHANGED <<tensor, script, log, item>>

\* Mutant of GatherReturn: self.__split = None is missing.
GatherReturnKeepsSplit(p) ==
    /\ pc[p] = "gathered"
    /\ tensor' = [tensor EXCEPT ![p].array = req[p].recvbuf]
    /\ pc' = [pc EXCEPT ![p] = "idle"]
    /\ req' = [req EXCEPT ![p] = NoReq]
    /\ Finished(p, "returned")
    /\ UNCHANGED <<script, item>>

\* Mutant of GatherReturn: the gathered array is handed back as a new
\* Tensor and self is left as it was.
GatherReturnsNewTensor(p) ==
    /\ pc[p] = "gathered"
    /\ pc' = [pc EXCEPT ![p] = "idle"]
    /\ req' = [req EXCEPT ![p] = NoReq]
    /\ log' = [log EXCEPT ![p][Len(log[p])].outcome = "returned",
                          ![p][Len(log[p])].ret = "new Tensor"]
    /\ UNCHANGED <<tensor, script, item>>

\* self.__array = gathered; self.__split = None; return self
GatherReturn(p) ==
    /\ pc[p] = "gathered"
    /\ tensor' = [tensor EXCEPT ![p].array = req[p].recvbuf,
                                ![p].split = None]
    /\ pc' = [pc EXCEPT ![p] = "idle"]
    /\ req' = [req EXCEPT ![p] = NoReq]
    /\ Finished(p, "returned")
    /\ UNCHANGED <<script, item>>

Alltoallv ==
    /\ \A p \in Procs : pc[p] = "Alltoallv"
    /\ ~Mismatch(req)
    /\ \E g \in [Procs -> Garbage] :
          req' = [p \in Procs |->
                     [req[p] EXCEPT !.recvbuf = ExchangeInto(p, req, g[p])]]
    /\ pc' = [p \in Procs |-> "redistributed"]
    /\ UNCHANGED <<tensor, script, log, item>>

\* Mutant of ExchangeReturn: the dtype and device tags are taken from the
\* new buffer.
ExchangeReturnRetags(p) ==
    /\ pc[p] = "redistributed"
    /\ tensor' = [tensor EXCEPT ![p].array  = req[p].recvbuf,
                                ![p].split  = req[p].axis,
                                ![p].dtype  = req[p].recvbuf.etype,
                                ![p].device = req[p].recvbuf.dev]
    /\ pc' = [pc EXCEPT ![p] = "idle"]
    /\ req' = [req EXCEPT ![p] = NoReq]
    /\ Finished(p, "returned")
    /\ UNCHANGED <<script, item>>

\* self.__array = redistributed; self.__split = axis; return self
ExchangeReturn(p) ==
    /\ pc[p] = "redistributed"
    /\ tensor' = [tensor EXCEPT ![p].array = req[p].recvbuf,
                                ![p].split = req[p].axis]
    /\ pc' = [pc EXCEPT ![p] = "idle"]
    /\ req' = [req EXCEPT ![p] = NoReq]
    /\ Finished(p, "returned")
    /\ UNCHANGED <<script, item>>

\* A transport fault: the collective every rank has entered raises
\* CommunicationError at each of them, before the assignments of resplit.
CommunicationError ==
    /\ \A p \in Procs : pc[p] \in {"Allgatherv", "Alltoallv"}
    /\ pc' = [p \in Procs |-> "raised"]
    /\ req' = [p \in Procs |-> NoReq]
    /\ log' = [p \in Procs |->
                  [log[p] EXCEPT ![Len(log[p])].outcome = "CommunicationError"]]
    /\ UNCHANGED <<tensor, script, item>>

Next ==
    \/ \E p \in Procs, axis \in AxisInputs : ResplitRaise(p, axis)
    \/ \E p \in Procs, axis \in AxisInputs : ResplitNoop(p, axis)
    \/ \E p \in Procs, axis \in AxisInputs : ResplitGather(p, axis)
    \/ \E p \in Procs, axis \in AxisInputs : ResplitSlice(p, axis)
    \/ \E p \in Procs, axis \in AxisInputs : ResplitExchange(p, axis)
    \/ Allgatherv
    \/ \E p \in Procs : GatherReturn(p)
    \/ Alltoallv
    \/ \E p \in Procs : ExchangeReturn(p)
    \/ CommunicationError

Spec == Init /\ [][Next]_vars

----------------------------------------------------------------------------
(* Tensor.__setitem__ *)

\* The keys of an item assignment: index pairs (i, j).
Keys == {<<0, 0>>, <<1, 1>>}

\* The values of an item assignment: a scalar, a Tensor holding one element,
\* and a value that is neither (a list).
ItemValues ==
    {[kind |-> "scalar", v |-> 7],
     [kind |-> "Tensor", v |-> 8],
     [kind |-> "list",   v |-> 9]}

\* The key addresses an element of the buffer.
InRange(buf, key) == key[1] < buf.shape[1] /\ key[2] < buf.shape[2]

\* self.__array.__setitem__(key, value)
Store(buf, key, v) ==
    [buf EXCEPT !.data[key[1] * buf.shape[2] + key[2] + 1] = v]

\* Rank p, which is in no other call, starts an item assignment: the one
\* item assignment of the program, made by one rank at any point between
\* the resplit calls.
SetItemCalls(p) ==
    /\ pc[p] \in {"idle", "raised"}
    /\ \A q \in Procs : item[q] = << >>

Recorded(p, key, value, outcome) ==
    item' = [item EXCEPT ![p] = Append(@,
                [key |-> key, value |-> value,
                 before |-> tensor[p], outcome |-> outcome])]

\* Mutant of SetItemRaise: the element is stored in the local buffer before
\* the split axis is looked at.
SetItemRaiseAfterStore(p, key, value) ==
    /\ SetItemCalls(p)
    /\ tensor[p].split # None
    /\ tensor' = [tensor EXCEPT ![p].array =
                     IF InRange(@, key) THEN Store(@, key, value.v) ELSE @]
    /\ pc' = [pc EXCEPT ![p] = "raised"]
    /\ Recorded(p, key, value, "NotImplementedError")
    /\ UNCHANGED <<req, script, log>>

\* if self.__split is not None: raise NotImplementedError
SetItemRaise(p, key, value) ==
    /\ SetItemCalls(p)
    /\ tensor[p].split # None
    /\ pc' = [pc EXCEPT ![p] = "raised"]
    /\ Recorded(p, key, value, "NotImplementedError")
    /\ UNCHANGED <<tensor, req, script, log>>

\* The value is a scalar or a Tensor: it is stored in the local buffer.
SetItemStore(p, key, value) ==
    /\ SetItemCalls(p)
    /\ tensor[p].split = None
    /\ value.kind \in {"scalar", "Tensor"}
    /\ InRange(tensor[p].array, key)
    /\ tensor' = [tensor EXCEPT ![p].array = Store(@, key, value.v)]
    /\ pc' = [pc EXCEPT ![p] = "idle"]
    /\ Recorded(p, key, value, "returned")
    /\ UNCHANGED <<req, script, log>>

\* The key lies outside the local buffer: the buffer's __setitem__ raises.
SetItemIndexError(p, key, value) ==
    /\ SetItemCalls(p)
    /\ tensor[p].split = None
    /\ value.kind \in {"scalar", "Tensor"}
    /\ ~InRange(tensor[p].array, key)
    /\ pc' = [pc EXCEPT ![p] = "raised"]
    /\ Recorded(p, key, value, "IndexError")
    /\ UNCHANGED <<tensor, req, script, log>>

\* else: raise NotImplementedError('Not implemented for ...')
SetItemUnsupported(p, key, value) ==
    /\ SetItemCalls(p)
    /\ tensor[p].split = None
    /\ value.kind \notin {"scalar", "Tensor"}
    /\ pc' = [pc EXCEPT ![p] = "raised"]
    /\ Recorded(p, key, value, "NotImplementedError")
    /\ UNCHANGED <<tensor, req, script, log>>

\* The program of each rank calls resplit and assigns items.
NextItems ==
    \/ Next
    \/ \E p \in Procs, key \in Keys, value \in ItemValues : SetItemRaise(p, key, value)
    \/ \E p \in Procs, key \in Keys, value \in ItemValues : SetItemStore(p, key, value)
    \/ \E p \in Procs, key \in Keys, value \in ItemValues : SetItemIndexError(p, key, value)
    \/ \E p \in Procs, key \in Keys, value \in ItemValues : SetItemUnsupported(p, key, value)

\* The global shape of the tensors items are assigned to: one row, so that
\* the key (1, 1) lies outside the array and (0, 0) inside.
ItemShapes == {<<1, 2>>}

InitItems ==
    \E size \in 1..MaxProcs, gs \in ItemShapes, sp \in Splits :
        /\ tensor = [p \in Ranks(size) |->
                        Tensor(LocalPart(gs, sp, "float32", "cpu", p, size),
                               gs, "float32", sp, "cpu",
                               [rank |-> p, size |-> size])]
        /\ pc = [p \in Ranks(size) |-> "idle"]
        /\ req = [p \in Ranks(size) |-> NoReq]
        /\ script = << >>
        /\ log = [p \in Ranks(size) |-> << >>]
        /\ item = [p \in Ranks(size) |-> << >>]

SpecItems == InitItems /\ [][NextItems]_vars

----------------------------------------------------------------------------
(* resplit as a function of the tensors of the group *)

\* The request rank p's resplit(None) enters Allgatherv with.
GatherRequest(t) ==
    [op          |-> "Allgatherv",
     sendbuf     |-> t.array,
     recvbuf     |-> gathered(t),
     recv_counts |-> recv_counts_displs(t).counts,
     recv_displs |-> recv_counts_displs(t).displs,
     recv_axis   |-> None]

\* The request rank p's resplit(axis) enters Alltoallv with.
ExchangeRequest(t, axis) ==
    [op          |-> "Alltoallv",
     sendbuf     |-> t.array,
     send_counts |-> send_counts_displs(t, axis).counts,
     send_displs |-> send_counts_displs(t, axis).displs,
     recvbuf     |-> redistributed(t, axis),
     recv_counts |-> recv_counts_displs(t).counts,
     recv_displs |-> recv_counts_displs(t).displs,
     axis        |-> axis,
     recv_axis   |-> t.split]

\* The ranks holding the tensors T all call resplit(axis) and nothing but a
\* rejection by the transport stops them: every rank returns.
ResplitCompletes(T, axis) ==
    /\ sanitize_axis(T[0].gshape, axis).ok
    /\ (axis = None /\ T[0].split # None)
          => LET reqs == [q \in DOMAIN T |-> GatherRequest(T[q])]
             IN  ~Mismatch(reqs) /\ ~Truncated(reqs)
    /\ (axis # None /\ T[0].split # None /\ axis # T[0].split)
          => ~Mismatch([q \in DOMAIN T |-> ExchangeRequest(T[q], axis)])

\* The tensor rank p holds when all ranks, holding the tensors T, have
\* returned from resplit(axis); g is what the fresh buffer held.
ResplitResult(T, p, axis, g) ==
    LET t == T[p]
    IN  IF axis = t.split THEN t
        ELSE IF axis = None
        THEN [t EXCEPT
                 !.array = GatherInto(p, [q \in DOMAIN T |-> GatherRequest(T[q])], g),
                 !.split = None]
        ELSE IF t.split = None
        THEN [t EXCEPT
                 !.array = SliceBuf(t.array, slices(t, axis).axis,
                                    slices(t, axis).start, slices(t, axis).stop),
                 !.split = axis]
        ELSE [t EXCEPT
                 !.array = ExchangeInto(p, [q \in DOMAIN T |->
                                               ExchangeRequest(T[q], axis)], g),
                 !.split = axis]

----------------------------------------------------------------------------
(* Tensor.__getitem__ *)

\* The keys of the index-based extractions: the slices [start:stop] of the
\* first axis.
GetKeys == {<<0, 1>>, <<1, 2>>, <<0, 2>>}

\* self.__array[key]
Index(buf, key) == SliceBuf(buf, 0, key[1], key[2])

\* The parameters of Tensor.__init__ after self.
InitParams == <<"array", "gshape", "dtype", "split", "device", "comm">>

\* The positional arguments __getitem__ passes to Tensor(...).
GetItemArgs(t, key) ==
    <<Index(t.array, key), t.gshape, t.split, t.device, t.comm>>

\* The call Tensor(*args): the arguments are bound to the parameters in
\* order; a call with too few or too many of them raises TypeError.
Construct(args) ==
    IF Len(args) = Len(InitParams)
    THEN [ok |-> TRUE,
          value |-> Tensor(args[1], args[2], args[3], args[4], args[5], args[6])]
    ELSE [ok |-> FALSE, value |-> None]

\* return Tensor(self.__array[key], self.shape, self.split, self.device,
\* self.comm): the one index-based extraction of the program, made by one
\* rank at any point between the resplit calls.
GetItem(p, key) ==
    LET c == Construct(GetItemArgs(tensor[p], key))
    IN  /\ pc[p] \in {"idle", "raised"}
        /\ \A q \in Procs : item[q] = << >>
        /\ item' = [item EXCEPT ![p] = Append(@,
                        [key |-> key, value |-> [kind |-> "getitem"],
                         before |-> tensor[p],
                         outcome |-> IF c.ok THEN "returned" ELSE "TypeError",
                         nargs |-> Len(GetItemArgs(tensor[p], key)),
                         result |-> c.value])]
        /\ pc' = [pc EXCEPT ![p] = IF c.ok THEN "idle" ELSE "raised"]
        /\ UNCHANGED <<tensor, req, script, log>>

\* The program of each rank calls resplit and extracts by index.
NextGetItem ==
    \/ Next
    \/ \E p \in Procs, key \in GetKeys : GetItem(p, key)

\* The global shape of the tensors indexed: two rows, so that a slice of
\* the first axis can take a proper part.
GetItemShapes == {<<2, 2>>}

InitGetItem ==
    \E size \in 1..MaxProcs, gs \in GetItemShapes, sp \in Splits :
        /\ tensor = [p \in Ranks(size) |->
                        Tensor(LocalPart(gs, sp, "float32", "cpu", p, size),
                               gs, "float32", sp, "cpu",
                               [rank |-> p, size |-> size])]
        /\ pc = [p \in Ranks(size) |-> "idle"]
        /\ req = [p \in Ranks(size) |-> NoReq]
        /\ script = << >>
        /\ log = [p \in Ranks(size) |-> << >>]
        /\ item = [p \in Ranks(size) |-> << >>]

SpecGetItem == InitGetItem /\ [][NextGetItem]_vars

----------------------------------------------------------------------------
(* Tensor.astype, Tensor.cpu, Tensor.gpu *)

\* self.__array.type(dtype.torch_type()): the elements converted to the
\* element type `dtype`, on the device the buffer is on.  The elements of
\* the model's arrays are whole numbers, which both element types hold.
Cast(buf, dtype) == [buf EXCEPT !.etype = dtype]

\* self.__array.cpu() and self.__array.cuda(...): the buffer on the device.
OnDevice(buf, dev) == [buf EXCEPT !.dev = dev]

\* Rank p, which is in no other call, starts a conversion: the one
\* conversion of the program, made by one rank at any point between its
\* resplit calls, wherever the other ranks are.
ConvertCalls(p) ==
    /\ pc[p] \in {"idle", "raised"}
    /\ \A q \in Procs : item[q] = << >>

Converted(p, op, arg, outcome, result) ==
    item' = [item EXCEPT ![p] = Append(@,
                [key |-> op, value |-> [kind |-> "convert", v |-> arg],
                 before |-> tensor[p], outcome |-> outcome,
                 result |-> result])]

\* astype(dtype, copy=True): a new Tensor with the converted buffer is
\* returned, self is left as it is.
AsTypeCopy(p, dtype) ==
    LET t == tensor[p]
    IN  /\ ConvertCalls(p)
        /\ pc' = [pc EXCEPT ![p] = "idle"]
        /\ Converted(p, "astype", dtype, "returned",
                     Tensor(Cast(t.array, dtype), t.gshape, dtype, t.split,
                            t.device, t.comm))
        /\ UNCHANGED <<tensor, req, script, log>>

\* astype(dtype, copy=False): self.__array = casted_array;
\* self.__dtype = dtype; return self
AsTypeInPlace(p, dtype) ==
    /\ ConvertCalls(p)
    /\ tensor' = [tensor EXCEPT ![p].array = Cast(@, dtype),
                                ![p].dtype = dtype]
    /\ pc' = [pc EXCEPT ![p] = "idle"]
    /\ Converted(p, "astype", dtype, "returned", "self")
    /\ UNCHANGED <<req, script, log>>

\* cpu(): self.__array = self.__array.cpu(); return self.  The device tag
\* is not assigned.
Cpu(p) ==
    /\ ConvertCalls(p)
    /\ tensor' = [tensor EXCEPT ![p].array = OnDevice(@, "cpu")]
    /\ pc' = [pc EXCEPT ![p] = "idle"]
    /\ Converted(p, "cpu", None, "returned", "self")
    /\ UNCHANGED <<req, script, log>>

\* gpu(), where torch reports a cuda device:
\* self.__array = self.__array.cuda(devices.gpu_index()); return self.  The
\* device tag is not assigned.
Gpu(p) ==
    /\ ConvertCalls(p)
    /\ tensor' = [tensor EXCEPT ![p].array = OnDevice(@, "gpu")]
    /\ pc' = [pc EXCEPT ![p] = "idle"]
    /\ Converted(p, "gpu", None, "returned", "self")
    /\ UNCHANGED <<req, script, log>>

\* gpu(), where torch reports no cuda device: the class defines no such
\* method and the call raises AttributeError.
GpuUndefined(p) ==
    /\ ConvertCalls(p)
    /\ pc' = [pc EXCEPT ![p] = "raised"]
    /\ Converted(p, "gpu", None, "AttributeError", None)
    /\ UNCHANGED <<tensor, req, script, log>>

\* The program of each rank calls resplit and converts its tensor.
NextConvert ==
    \/ Next
    \/ \E p \in Procs, dtype \in DTypes : AsTypeCopy(p, dtype)
    \/ \E p \in Procs, dtype \in DTypes : AsTypeInPlace(p, dtype)
    \/ \E p \in Procs : Cpu(p)
    \/ \E p \in Procs : Gpu(p)
    \/ \E p \in Procs : GpuUndefined(p)

\* The global shapes of the tensors converted.
ConvertShapes == {<<2, 2>>}

InitConvert ==
    \E size \in 1..MaxProcs, gs \in ConvertShapes, sp \in Splits, tg \in Tags :
        /\ tensor = [p \in Ranks(size) |->
                        Tensor(LocalPart(gs, sp, tg[1], tg[2], p, size),
                               gs, tg[1], sp, tg[2],
                               [rank |-> p, size |-> size])]
        /\ pc = [p \in Ranks(size) |-> "idle"]
        /\ req = [p \in Ranks(size) |-> NoReq]
        /\ script = << >>
        /\ log = [p \in Ranks(size) |-> << >>]
        /\ item = [p \in Ranks(size) |-> << >>]

SpecConvert == InitConvert /\ [][NextConvert]_vars

----------------------------------------------------------------------------
(* A test harness: tensors constructed with mismatched metadata *)

\* The global shapes the harness hands out.
HarnessShapes == {<<2, 2>>, <<1, 2>>, <<0 - 1, 2>>}

\* The shape of the array a rank told the global shape gs holds the parts
\* of: a buffer has no negative extent, so that rank's part is empty.
Held(gs) == [k \in DOMAIN gs |-> Max(gs[k], 0)]

\* The process counts a rank's communicator may report in the harness: the
\* true one, one more, and none.
HarnessSizes(size) == {size, size + 1, 0}

\* Every rank is told a global shape and a process count, and one rank
\* (odd) may be told other ones than the rest.  A rank holds its part (by
\* the true size of the group) of the array of the global shape it was
\* told (an empty part if that shape has a negative extent), and a
\* communicator reporting the process count it was told.  A run of the
\* harness that hands out a negative extent reports the true process count.
InitHarness ==
    \E size \in 1..MaxProcs, sp \in Splits, odd \in 0..(MaxProcs - 1) :
        \E gs \in HarnessShapes \X HarnessShapes,
           n  \in HarnessSizes(size) \X HarnessSizes(size) :
            LET told(x, p) == IF p = odd THEN x[2] ELSE x[1]
            IN  /\ odd < size
                /\ (\E k \in 1..2 : negative_dimension(gs[k]))
                       => n = <<size, size>>
                /\ tensor = [p \in Ranks(size) |->
                                Tensor(LocalPart(Held(told(gs, p)), sp, "float32", "cpu", p, size),
                                       told(gs, p), "float32", sp, "cpu",
                                       [rank |-> p, size |-> told(n, p)])]
                /\ pc = [p \in Ranks(size) |-> "idle"]
                /\ req = [p \in Ranks(size) |-> NoReq]
                /\ script = << >>
                /\ log = [p \in Ranks(size) |-> << >>]
                /\ item = [p \in Ranks(size) |-> << >>]

\* Mutant of ResplitInvalidPartition: the collective is entered before the
\* partition is computed.
ResplitInvalidPartitionLate(p, axis) ==
    LET t == tensor[p]
    IN  /\ Calls(p, axis)
        /\ sanitize_axis(t.gshape, axis).ok
        /\ axis # t.split
        /\ partition_raises(t, axis)
        /\ req' = [req EXCEPT ![p] =
                      [op          |-> "Allgatherv",
                       sendbuf     |-> t.array,
                       recvbuf     |-> gathered(t),
                       recv_counts |-> << >>,
                       recv_displs |-> << >>,
                       recv_axis   |-> axis]]
        /\ pc' = [pc EXCEPT ![p] = "Allgatherv"]
        /\ Logged(p, axis, "partition", "pending")
        /\ UNCHANGED <<tensor, item>>

\* The partition the branch asks for (counts_displs_shape at line 1081, chunk
\* at lines 1089 and 1095) fails: resplit raises before its collective call.
ResplitInvalidPartition(p, axis) ==
    LET t == tensor[p]
    IN  /\ Calls(p, axis)
        /\ sanitize_axis(t.gshape, axis).ok
        /\ axis # t.split
        /\ partition_raises(t, axis)
        /\ pc' = [pc EXCEPT ![p] = "raised"]
        /\ Logged(p, axis, "partition", "InvalidPartition")
        /\ UNCHANGED <<tensor, req, item>>

\* torch.empty of the gather or exchange branch fails: resplit raises before
\* its collective call.
ResplitEmptyRaise(p, axis) ==
    LET t == tensor[p]
    IN  /\ Calls(p, axis)
        /\ sanitize_axis(t.gshape, axis).ok
        /\ axis # t.split
        /\ empty_raises(t, axis)
        /\ pc' = [pc EXCEPT ![p] = "raised"]
        /\ Logged(p, axis, "empty", "RuntimeError")
        /\ UNCHANGED <<tensor, req, item>>

NextHarness ==
    \/ Next
    \/ \E p \in Procs, axis \in AxisInputs : ResplitInvalidPartition(p, axis)
    \/ \E p \in Procs, axis \in AxisInputs : ResplitEmptyRaise(p, axis)

SpecHarness == InitHarness /\ [][NextHarness]_vars

----------------------------------------------------------------------------
(* Fair executions: every rank keeps running, the transport does not fault *)

\* The transport raises CommunicationError only for a collective it cannot
\* complete: the descriptors disagree, or a gather's receive would be
\* truncated.
TransportRejects ==
    /\ \A p \in Procs : pc[p] \in {"Allgatherv", "Alltoallv"}
    /\ \/ Mismatch(req)
       \/ (\A p \in Procs : pc[p] = "Allgatherv") /\ Truncated(req)
    /\ CommunicationError

\* The steps of rank p's own program.
RankStep(p) ==
    /\ p \in Procs
    /\ \/ \E axis \in AxisInputs : ResplitRaise(p, axis)
       \/ \E axis \in AxisInputs : ResplitNoop(p, axis)
       \/ \E axis \in AxisInputs : ResplitGather(p, axis)
       \/ \E axis \in AxisInputs : ResplitSlice(p, axis)
       \/ \E axis \in AxisInputs : ResplitExchange(p, axis)
       \/ GatherReturn(p)
       \/ ExchangeReturn(p)

NextLive ==
    \/ \E p \in Procs : RankStep(p)
    \/ Allgatherv
    \/ Alltoallv
    \/ TransportRejects

\* The global shapes of the fair executions: a column, a row and a square.
LiveShapes == {<<2, 1>>, <<1, 2>>, <<2, 2>>}

InitLive ==
    \E size \in 1..MaxProcs, gs \in LiveShapes, sp \in Splits :
        /\ tensor = [p \in Ranks(size) |->
                        Tensor(LocalPart(gs, sp, "float32", "cpu", p, size),
                               gs, "float32", sp, "cpu",
                               [rank |-> p, size |-> size])]
        /\ pc = [p \in Ranks(size) |-> "idle"]
        /\ req = [p \in Ranks(size) |-> NoReq]
        /\ script = << >>
        /\ log = [p \in Ranks(size) |-> << >>]
        /\ item = [p \in Ranks(size) |-> << >>]

\* Every rank that can take a step of its program eventually does, and a
\* collective that can complete (or must be rejected) eventually is.
Fairness ==
    /\ \A p \in 0..(MaxProcs - 1) : WF_vars(RankStep(p))
    /\ WF_vars(Allgatherv)
    /\ WF_vars(Alltoallv)
    /\ WF_vars(TransportRejects)

SpecLive == InitLive /\ [][NextLive]_vars /\ Fairness

----------------------------------------------------------------------------
(* Helpers of the properties *)

\* The record of rank p's latest resplit call.
Last(p) == log[p][Len(log[p])]

\* Rank p has returned normally from its latest resplit call.
Returned(p) ==
    /\ Len(log[p]) > 0
    /\ pc[p] = "idle"
    /\ Last(p).outcome = "returned"

\* No rank is inside a call and all ranks have made the same calls.
Quiescent ==
    \A p, q \in Procs :
        /\ pc[p] \in {"idle", "raised"}
        /\ Len(log[p]) = Len(log[q])

RECURSIVE SumTo(_, _)
\* f[0] + ... + f[n - 1]
SumTo(f, n) == IF n = 0 THEN 0 ELSE SumTo(f, n - 1) + f[n - 1]

\* The share of rank r of `extent` elements over n ranks, as the policy
\* states it: base + 1 for the first `remainder` ranks, base for the others.
Share(extent, n, r) ==
    LET base      == extent \div n
        remainder == extent % n
    IN  IF r < remainder THEN base + 1 ELSE base

\* The shape and the element values of a buffer.
Content(buf) == [shape |-> buf.shape, data |-> buf.data]

----------------------------------------------------------------------------
(* C1: local/global shape invariant.  In every reachable state each rank's  *)
(* local shape equals the global shape on every axis other than its split  *)
(* axis (on every axis when it is unsplit); and whenever all ranks have     *)
(* made the same resplit calls, the local extents along the split axis sum *)
(* to the global extent of that axis.                                      *)

C1_ShapeInvariant ==
    /\ \A p \in Procs : \A a \in Axes :
          a # tensor[p].split =>
              lshape(tensor[p])[a + 1] = tensor[p].gshape[a + 1]
    /\ Quiescent =>
          \A p \in Procs :
              LET a == tensor[p].split
              IN  a # None =>
                    SumTo([q \in Procs |-> lshape(tensor[q])[a + 1]],
                          Cardinality(Procs))
                        = tensor[p].gshape[a + 1]

\* Two ranks have each gathered the (4, 5) array split on axis 0 and split
\* it again on axis 1: the local shapes are (4, 3) and (4, 2).
C1_Witness ==
    /\ Quiescent
    /\ Cardinality(Procs) = 2
    /\ \A p \in Procs :
          /\ Len(log[p]) = 2
          /\ tensor[p].gshape = <<4, 5>>
          /\ log[p][1].before.split = 0
          /\ log[p][1].axis = None
          /\ log[p][1].outcome = "returned"
          /\ Last(p).axis = 1
          /\ Returned(p)
          /\ tensor[p].split = 1
    /\ lshape(tensor[0]) = <<4, 3>>
    /\ lshape(tensor[1]) = <<4, 2>>

----------------------------------------------------------------------------
(* C2: content preservation.  After any resplit that returned, rank r holds *)
(* exactly the slice [displacement[r], displacement[r] + count[r]) of the   *)
(* original global array along the new split axis (the whole array when     *)
(* unsplit): the same shape and the same element values.                   *)

C2_ContentPreserved ==
    \A p \in Procs :
        (Returned(p) /\ Last(p).case # "noop") =>
            LET t == tensor[p]
            IN  Content(t.array)
                    = Content(LocalPart(t.gshape, t.split, t.dtype, t.device,
                                        t.comm.rank, t.comm.size))

----------------------------------------------------------------------------
(* C3: round trip.  For an array split along axis a, resplit(None) followed *)
(* by resplit(a) leaves every rank with a local buffer of the same shape,  *)
(* element values and element type as the one it held originally.          *)

C3_RoundTrip ==
    \A p \in Procs :
        ( /\ Len(log[p]) = 2
          /\ Returned(p)
          /\ log[p][1].before.split \in Axes
          /\ log[p][1].axis = None
          /\ log[p][1].outcome = "returned"
          /\ log[p][2].axis = log[p][1].before.split )
        => /\ tensor[p].array.shape = log[p][1].before.array.shape
           /\ tensor[p].array.data  = log[p][1].before.array.data
           /\ tensor[p].array.etype = log[p][1].before.array.etype

----------------------------------------------------------------------------
(* C6: unsplit (gather).  After resplit(None) has returned on an array that *)
(* was split along S_old, the rank holds the complete array (local shape = *)
(* global shape), its split axis is None, the chunk each rank r contributed *)
(* occupies the positions starting at displacement[r] along S_old, and all *)
(* ranks that have returned hold identical buffers.                        *)

\* The chunk `part` occupies the positions of `full` that start at d along
\* axis a.
LandsAt(full, part, a, d) ==
    \A i \in 0..(part.shape[1] - 1), j \in 0..(part.shape[2] - 1) :
        LET fi == IF a = 0 THEN i + d ELSE i
            fj == IF a = 0 THEN j ELSE j + d
        IN  /\ fi < full.shape[1]
            /\ fj < full.shape[2]
            /\ At(full, fi, fj) = At(part, i, j)

GatherDone(p) ==
    /\ Returned(p)
    /\ Last(p).axis = None
    /\ Last(p).before.split \in Axes

C6_GatherAssembles ==
    \A p \in Procs :
        GatherDone(p) =>
            LET k     == Len(log[p])
                t     == tensor[p]
                S_old == Last(p).before.split
                n     == t.comm.size
            IN  /\ lshape(t) = t.gshape
                /\ t.split = None
                /\ \A r \in Procs :
                      LandsAt(t.array, log[r][k].before.array, S_old,
                              SumTo([q \in Procs |->
                                        Share(t.gshape[S_old + 1], n, q)], r))
                /\ \A q \in Procs :
                      (GatherDone(q) /\ Len(log[q]) = k) =>
                          tensor[q].array = t.array

----------------------------------------------------------------------------
(* C4: atomicity of resplit.  A step changes a rank's local buffer or its   *)
(* split axis only as the return of a resplit call, which replaces both:   *)
(* until then the tensor is as it was before the call, afterwards its      *)
(* split axis is the requested one and its buffer has the new layout's     *)
(* shape.  A call that raises leaves the tensor as it was before the call. *)

\* The local shape of rank r under split axis a.
LayoutShape(gshape, a, n, r) ==
    IF a = None THEN gshape
    ELSE [gshape EXCEPT ![a + 1] = Share(gshape[a + 1], n, r)]

C4_ResplitAtomic ==
    [][\A p \in Procs :
          LET e == log'[p][Len(log'[p])]
          IN  /\ (\/ tensor'[p].array # tensor[p].array
                  \/ tensor'[p].split # tensor[p].split)
                 => /\ pc'[p] = "idle"
                    /\ e.outcome = "returned"
                    /\ e.before = tensor[p]
                    /\ tensor'[p].split = e.axis
                    /\ tensor'[p].split # tensor[p].split
                    /\ lshape(tensor'[p])
                         = LayoutShape(tensor[p].gshape, e.axis,
                                       tensor[p].comm.size, tensor[p].comm.rank)
              /\ (pc'[p] = "raised" /\ Len(log'[p]) > 0)
                 => tensor'[p] = e.before
      ]_vars

\* A redistribution from axis 0 to axis 1 over two ranks failed in the
\* collective: both ranks have raised and hold what they held before.
C4_Witness ==
    /\ Cardinality(Procs) = 2
    /\ \A p \in Procs :
          /\ pc[p] = "raised"
          /\ Len(log[p]) = 1
          /\ Last(p).case = "exchange"
          /\ Last(p).outcome = "CommunicationError"
          /\ tensor[p] = Last(p).before
          /\ tensor[p].split = 0
          /\ tensor[p].gshape = <<2, 2>>

----------------------------------------------------------------------------
(* C5: no-op.  A resplit call whose target is the current split axis (None *)
(* on an unsplit array included) returns at once: the tensor (buffer,      *)
(* shapes, split axis) is unchanged and the rank enters no collective.     *)

C5_NoopIdentity ==
    [][\A p \in Procs :
          ( /\ Len(log'[p]) = Len(log[p]) + 1
            /\ log'[p][Len(log'[p])].axis = tensor[p].split )
          => /\ tensor'[p] = tensor[p]
             /\ pc'[p] = "idle"
             /\ req'[p] = NoReq
             /\ log'[p][Len(log'[p])].outcome = "returned"
      ]_vars

\* A rank of two gathered the (2, 2) array split on axis 0 and then asked
\* for None again: the second call left the gathered tensor as it was.
C5_Witness ==
    \E p \in Procs :
        /\ Len(log[p]) = 2
        /\ Returned(p)
        /\ tensor[p].comm.size = 2
        /\ tensor[p].gshape = <<2, 2>>
        /\ log[p][1].before.split = 0
        /\ log[p][1].axis = None
        /\ log[p][1].outcome = "returned"
        /\ log[p][2].before.split = None
        /\ log[p][2].axis = None
        /\ tensor[p] = log[p][2].before
        /\ lshape(tensor[p]) = <<2, 2>>

----------------------------------------------------------------------------
(* C7: split from unsplit.  A resplit(S_new) call on an unsplit array makes *)
(* rank r's buffer the slice [displacement[r], displacement[r] + count[r]) *)
(* of its own copy along S_new and its split axis S_new, in the one step   *)
(* of the call, without entering a collective.                             *)

C7_SliceFromUnsplit ==
    [][\A p \in Procs :
          LET e == log'[p][Len(log'[p])]
              t == tensor[p]
          IN  ( /\ Len(log'[p]) = Len(log[p]) + 1
                /\ t.split = None
                /\ e.axis \in Axes )
              => LET ext == t.gshape[e.axis + 1]
                     n   == t.comm.size
                     d   == SumTo([q \in Procs |-> Share(ext, n, q)], t.comm.rank)
                     c   == Share(ext, n, t.comm.rank)
                 IN  /\ tensor'[p] =
                           [t EXCEPT !.array = SliceBuf(t.array, e.axis, d, d + c),
                                     !.split = e.axis]
                     /\ pc'[p] = "idle"
                     /\ req'[p] = NoReq
                     /\ e.outcome = "returned"
      ]_vars

\* Rank 1 of 2 cut columns 3..4 out of its full copy of the (4, 5) array.
C7_Witness ==
    \E p \in Procs :
        /\ Returned(p)
        /\ Len(log[p]) = 1
        /\ tensor[p].comm = [rank |-> 1, size |-> 2]
        /\ Last(p).before.split = None
        /\ Last(p).before.array = Global(<<4, 5>>, "float32", "cpu")
        /\ Last(p).axis = 1
        /\ tensor[p].split = 1
        /\ tensor[p].array.shape = <<4, 2>>
        /\ tensor[p].array.data = <<4, 5, 9, 10, 14, 15, 19, 20>>

----------------------------------------------------------------------------
(* C8: balance of the partition.  Every table of counts a resplit call     *)
(* computes for an extent sums exactly to that extent, and its largest and *)
(* smallest count differ by at most 1.                                     *)

Balanced(counts, extent) ==
    /\ SumTo(counts, Cardinality(DOMAIN counts)) = extent
    /\ \A r, q \in DOMAIN counts : counts[r] - counts[q] <= 1

C8_PartitionBalanced ==
    \A p \in Procs :
        /\ req[p].op = "Allgatherv" =>
              Balanced(req[p].recv_counts,
                       tensor[p].gshape[tensor[p].split + 1])
        /\ req[p].op = "Alltoallv" =>
              /\ Balanced(req[p].recv_counts,
                          tensor[p].gshape[tensor[p].split + 1])
              /\ Balanced(req[p].send_counts,
                          tensor[p].gshape[req[p].axis + 1])

\* Two ranks redistribute the (4, 5) array from axis 1 to axis 0: the
\* counts are (3, 2) along axis 1 and (2, 2) along axis 0.
C8_Witness ==
    \A p \in Procs :
        /\ req[p].op = "Alltoallv"
        /\ tensor[p].gshape = <<4, 5>>
        /\ req[p].recv_counts = (0 :> 3 @@ 1 :> 2)
        /\ req[p].send_counts = (0 :> 2 @@ 1 :> 2)

----------------------------------------------------------------------------
(* C9: displacements of the partition.  In every table a resplit call      *)
(* computes, the displacement of rank r is the sum of the counts of the    *)
(* ranks before it; the displacement of rank 0 is 0.                       *)

PrefixSums(counts, displs) ==
    /\ DOMAIN displs = DOMAIN counts
    /\ displs[0] = 0
    /\ \A r \in DOMAIN counts : displs[r] = SumTo(counts, r)

C9_DisplacementsArePrefixSums ==
    \A p \in Procs :
        /\ req[p].op \in {"Allgatherv", "Alltoallv"} =>
              PrefixSums(req[p].recv_counts, req[p].recv_displs)
        /\ req[p].op = "Alltoallv" =>
              PrefixSums(req[p].send_counts, req[p].send_displs)

\* Two ranks gather the (4, 5) array split on axis 1: counts (3, 2),
\* displacements (0, 3).
C9_Witness ==
    \A p \in Procs :
        /\ req[p].op = "Allgatherv"
        /\ tensor[p].gshape = <<4, 5>>
        /\ req[p].recv_counts = (0 :> 3 @@ 1 :> 2)
        /\ req[p].recv_displs = (0 :> 0 @@ 1 :> 3)

----------------------------------------------------------------------------
(* C10: partition policy.  After a resplit to a real axis has returned,    *)
(* the local extent of rank r along that axis is base + 1 if r < remainder *)
(* and base otherwise, with base = extent div size and remainder = extent  *)
(* mod size; the counts posted to a collective follow the same rule.       *)

C10_PartitionPolicy ==
    \A p \in Procs :
        LET t == tensor[p]
            n == t.comm.size
            r == t.comm.rank
        IN  /\ (Returned(p) /\ Last(p).axis \in Axes) =>
                  LET extent    == t.gshape[Last(p).axis + 1]
                      base      == extent \div n
                      remainder == extent % n
                  IN  lshape(t)[Last(p).axis + 1]
                          = IF r < remainder THEN base + 1 ELSE base
            /\ req[p].op \in {"Allgatherv", "Alltoallv"} =>
                  \A q \in Procs :
                      req[p].recv_counts[q]
                          = Share(t.gshape[t.split + 1], n, q)

\* The docstring's example: the (4, 5) array split on axis 0 over two ranks,
\* resplit to axis 1, has local shapes (4, 3) and (4, 2).
C10_Witness ==
    /\ Cardinality(Procs) = 2
    /\ \A p \in Procs :
          /\ Returned(p)
          /\ Len(log[p]) = 1
          /\ Last(p).before.split = 0
          /\ Last(p).before.array.shape = <<2, 5>>
          /\ Last(p).axis = 1
          /\ tensor[p].gshape = <<4, 5>>
    /\ lshape(tensor[0]) = <<4, 3>>
    /\ lshape(tensor[1]) = <<4, 2>>

----------------------------------------------------------------------------
(* C11: degenerate partition.  When the extent along the split axis is     *)
(* smaller than the number of ranks, exactly `extent` ranks hold a local   *)
(* extent of 1 and the others hold 0; and a resplit in which some rank     *)
(* contributes a zero-extent buffer completes without error: the           *)
(* collective all ranks have entered is able to complete.                  *)

\* Rank p holds no element along its split axis.
ZeroExtent(t) == t.split # None /\ lshape(t)[t.split + 1] = 0

C11_DegenerateCompletes ==
    /\ Quiescent =>
          \A p \in Procs :
              LET t == tensor[p]
                  a == t.split
              IN  (a # None /\ t.gshape[a + 1] < t.comm.size) =>
                      /\ Cardinality({q \in Procs : lshape(tensor[q])[a + 1] = 1})
                             = t.gshape[a + 1]
                      /\ Cardinality({q \in Procs : lshape(tensor[q])[a + 1] = 0})
                             = t.comm.size - t.gshape[a + 1]
    /\ ( /\ \A p \in Procs : pc[p] = "Allgatherv"
         /\ \E p \in Procs : ZeroExtent(tensor[p]) )
       => ~Truncated(req)

----------------------------------------------------------------------------
(* C12: indexed write precondition.  An item assignment on a tensor whose  *)
(* split axis is not None raises, whatever the key and the value: the step *)
(* leaves the tensor (buffer, split axis, shapes) as it was and posts      *)
(* nothing to a collective.                                                *)

C12_SetItemRejectedWhenSplit ==
    [][\A p \in Procs :
          ( /\ Len(item'[p]) = Len(item[p]) + 1
            /\ tensor[p].split # None )
          => /\ tensor'[p] = tensor[p]
             /\ item'[p][Len(item'[p])].outcome = "NotImplementedError"
             /\ pc'[p] = "raised"
             /\ req' = req
      ]_vars

\* Rank 1 of 2 tried to assign a Tensor to element (0, 0) of the (1, 2)
\* array split on axis 1: the call raised and its column is untouched.
C12_Witness ==
    /\ Cardinality(Procs) = 2
    /\ Len(item[1]) = 1
    /\ item[1][1].key = <<0, 0>>
    /\ item[1][1].value.kind = "Tensor"
    /\ item[1][1].outcome = "NotImplementedError"
    /\ item[1][1].before = tensor[1]
    /\ tensor[1].split = 1
    /\ tensor[1].gshape = <<1, 2>>
    /\ tensor[1].array.data = <<2>>
    /\ pc[1] = "raised"

----------------------------------------------------------------------------
(* C13: a mismatched gather fails on all sides.  When the ranks enter the   *)
(* gather of a resplit(None) reporting different global shapes or process  *)
(* counts, no rank gets a gathered buffer back: each stays in the          *)
(* collective until it raises CommunicationError, the error is raised at   *)
(* every rank together, the error is able to occur once all have entered   *)
(* (nobody hangs), and each rank's tensor is as it was before the call.    *)

\* Call k of ranks p and q is a gather and the two reported different
\* global shapes or process counts.
MismatchedGather(p, q, k) ==
    /\ Len(log[p]) >= k
    /\ Len(log[q]) >= k
    /\ log[p][k].case = "gather"
    /\ log[q][k].case = "gather"
    /\ \/ log[p][k].before.gshape # log[q][k].before.gshape
       \/ log[p][k].before.comm.size # log[q][k].before.comm.size

C13_MismatchFailsEverywhere ==
    \A p, q \in Procs : \A k \in 1..MaxCalls :
        MismatchedGather(p, q, k) =>
            /\ log[p][k].outcome \in {"pending", "CommunicationError"}
            /\ log[p][k].outcome = "pending" => pc[p] = "Allgatherv"
            /\ log[p][k].outcome = "CommunicationError" =>
                  \A r \in Procs : /\ Len(log[r]) >= k
                                   /\ log[r][k].outcome = "CommunicationError"
            /\ k = Len(log[p]) => tensor[p] = log[p][k].before
            /\ (\A r \in Procs : pc[r] = "Allgatherv") => ENABLED CommunicationError

\* Rank 0 reported the global shape (2, 2), rank 1 reported (1, 2): their
\* gather raised CommunicationError at both.
C13_Witness ==
    /\ Cardinality(Procs) = 2
    /\ tensor[0].gshape = <<2, 2>>
    /\ tensor[1].gshape = <<1, 2>>
    /\ \A p \in Procs :
          /\ tensor[p].comm.size = 2
          /\ Len(log[p]) = 1
          /\ Last(p).case = "gather"
          /\ Last(p).outcome = "CommunicationError"
          /\ pc[p] = "raised"
          /\ tensor[p].split = 0

----------------------------------------------------------------------------
(* C16: InvalidPartition.  A resplit call whose partition request is       *)
(* malformed (a process count that is not positive, or a negative extent)  *)
(* raises InvalidPartition in the step of the call: the rank has issued no *)
(* collective call for it and its tensor is as it was.  Ranks that make    *)
(* the same malformed request all raise, so none of them waits; a rank     *)
(* found waiting in the collective of that call made a well-formed request *)
(* of its own, from a process count or global shape other than the         *)
(* failing rank's.                                                         *)

\* Call k of rank p changes the split and asked for a malformed partition.
MalformedRequest(p, k) ==
    LET e == log[p][k]
    IN  /\ sanitize_axis(e.before.gshape, e.axis).ok
        /\ e.axis # e.before.split
        /\ partition_raises(e.before, e.axis)

\* Rank q is inside the collective of its call k.
WaitsIn(q, k) ==
    /\ Len(log[q]) = k
    /\ pc[q] \in {"Allgatherv", "Alltoallv"}

\* The malformed request of call k of rank p failed at once and locally.
FailedLocally(p, k) ==
    /\ log[p][k].case = "partition"
    /\ log[p][k].outcome = "InvalidPartition"
    /\ k = Len(log[p]) =>
          /\ pc[p] = "raised"
          /\ req[p] = NoReq
          /\ tensor[p] = log[p][k].before

C16_InvalidPartitionIsLocal ==
    \A p \in Procs : \A k \in 1..Len(log[p]) :
        /\ log[p][k].case = "partition" => MalformedRequest(p, k)
        /\ MalformedRequest(p, k) =>
              /\ FailedLocally(p, k)
              /\ \A q \in Procs :
                    WaitsIn(q, k) =>
                        /\ ~MalformedRequest(q, k)
                        /\ \/ log[q][k].before.comm.size # log[p][k].before.comm.size
                           \/ log[q][k].before.gshape # log[p][k].before.gshape

\* C16 as the specification states it: the malformed request fails locally
\* and no rank is left waiting in the collective of that call.
C16_NoPeerLeftWaiting ==
    \A p \in Procs : \A k \in 1..Len(log[p]) :
        MalformedRequest(p, k) =>
            /\ FailedLocally(p, k)
            /\ \A q \in Procs : ~WaitsIn(q, k)

\* Rank 0 was told the global shape (-1, 2) and rank 1 the shape (2, 2),
\* both split along axis 1, and both called resplit(0): rank 0 raised
\* InvalidPartition for the negative extent and kept its tensor, rank 1
\* entered Alltoallv and waits there.
C16_Witness ==
    /\ Cardinality(Procs) = 2
    /\ tensor[0].gshape = <<0 - 1, 2>>
    /\ tensor[1].gshape = <<2, 2>>
    /\ \A p \in Procs :
          /\ tensor[p].comm.size = 2
          /\ tensor[p].split = 1
          /\ Len(log[p]) = 1
          /\ Last(p).axis = 0
    /\ Last(0).outcome = "InvalidPartition"
    /\ pc[0] = "raised"
    /\ tensor[0] = Last(0).before
    /\ pc[1] = "Alltoallv"

----------------------------------------------------------------------------
(* C14: collective calls are group barriers.  A rank leaves Allgatherv or  *)
(* Alltoallv (and so goes on to return from resplit) only in a step at     *)
(* whose start every rank of the group is inside the same collective, as   *)
(* the same call of its program; as long as one rank has not issued the    *)
(* call, the ranks that have stay where they are.                          *)

C14_CollectiveBarrier ==
    [][\A p \in Procs :
          (pc[p] \in {"Allgatherv", "Alltoallv"} /\ pc'[p] # pc[p]) =>
              \A q \in Procs :
                  /\ pc[q] = pc[p]
                  /\ Len(log[q]) = Len(log[p])
                  /\ log[q][Len(log[q])].case = log[p][Len(log[p])].case
      ]_vars

\* Rank 0 has returned from the redistribution of the (2, 2) array from
\* axis 0 to axis 1; rank 1, which had to enter it first, has received but
\* not yet returned.
C14_Witness ==
    /\ Cardinality(Procs) = 2
    /\ tensor[0].gshape = <<2, 2>>
    /\ Len(log[0]) = 1
    /\ Len(log[1]) = 1
    /\ Returned(0)
    /\ Last(0).case = "exchange"
    /\ Last(0).before.split = 0
    /\ tensor[0].split = 1
    /\ pc[1] = "redistributed"
    /\ Last(1).case = "exchange"
    /\ Last(1).outcome = "pending"

----------------------------------------------------------------------------
(* C15: frame of resplit.  No step of a resplit call, in any of its cases, *)
(* changes the device tag, the dtype tag, the global shape or the          *)
(* communicator of a rank's tensor, and the global shape stays the same on *)
(* every rank.  (The only step of the program that changes one of them is  *)
(* an in-place astype, which assigns the dtype tag.)                       *)

\* The step is one of a conversion (astype, cpu, gpu), not of resplit.
ConversionStep == item' # item

C15_ResplitFrame ==
    [][\A p \in Procs :
          /\ tensor'[p].device = tensor[p].device
          /\ ~ConversionStep => tensor'[p].dtype = tensor[p].dtype
          /\ tensor'[p].gshape = tensor[p].gshape
          /\ tensor'[p].comm   = tensor[p].comm
          /\ \A q \in Procs : tensor'[q].gshape = tensor'[p].gshape
      ]_vars

\* Rank 1 of 2 gathered its float32 part of the (2, 2) array from axis 0,
\* converted the gathered array in place to int32 and then split it along
\* axis 1: it carries the int32 tag of the conversion and the other tags it
\* was constructed with.
C15_Witness ==
    /\ Cardinality(Procs) = 2
    /\ Len(log[1]) = 2
    /\ Returned(1)
    /\ log[1][1].case = "gather"
    /\ log[1][1].before.split = 0
    /\ log[1][1].before.dtype = "float32"
    /\ log[1][1].outcome = "returned"
    /\ Len(item[1]) = 1
    /\ item[1][1].key = "astype"
    /\ item[1][1].before.split = None
    /\ log[1][2].before.dtype = "int32"
    /\ log[1][2].case = "slice"
    /\ tensor[1].split = 1
    /\ tensor[1].device = "cpu"
    /\ tensor[1].dtype = "int32"
    /\ tensor[1].gshape = <<2, 2>>
    /\ tensor[1].comm = [rank |-> 1, size |-> 2]

----------------------------------------------------------------------------
(* C18: is_distributed.  On every rank, in every reachable state,          *)
(* is_distributed() is true exactly when the group has more than one       *)
(* process and the tensor's split axis is not None: it is false for every  *)
(* unsplit tensor and in every single-process group, and after a resplit   *)
(* has returned it answers for the axis that was asked for.                *)

C18_IsDistributed ==
    \A p \in Procs :
        /\ is_distributed(tensor[p])
              <=> (Cardinality(Procs) > 1 /\ tensor[p].split # None)
        /\ Cardinality(Procs) = 1 => ~is_distributed(tensor[p])
        /\ tensor[p].split = None => ~is_distributed(tensor[p])
        /\ Returned(p) =>
              (is_distributed(tensor[p])
                  <=> (Cardinality(Procs) > 1 /\ Last(p).axis # None))

\* A rank of two gathered its tensor: it was distributed before the call
\* and is not any more.
C18_Witness ==
    \E p \in Procs :
        /\ Cardinality(Procs) = 2
        /\ Returned(p)
        /\ Last(p).case = "gather"
        /\ is_distributed(Last(p).before)
        /\ ~is_distributed(tensor[p])

----------------------------------------------------------------------------
(* C19: single-process group.  When the group has one process, a          *)
(* collective hands it a copy of what it sent (same shape, same element    *)
(* values), and its local buffer is the complete global array before and   *)
(* after every resplit call, whatever the split axis and the target.       *)

C19_SingleProcessHoldsAll ==
    \A p \in Procs :
        Cardinality(Procs) = 1 =>
            /\ pc[p] \in {"idle", "raised"} =>
                  Content(tensor[p].array)
                      = Content(Global(tensor[p].gshape, tensor[p].dtype,
                                       tensor[p].device))
            /\ pc[p] \in {"gathered", "redistributed"} =>
                  /\ Content(req[p].recvbuf) = Content(req[p].sendbuf)
                  /\ req[p].sendbuf = tensor[p].array

\* The only process of a group held the (2, 1) array split along axis 1,
\* called resplit(None) and returned: it holds the two elements unsplit.
C19_Witness ==
    /\ Cardinality(Procs) = 1
    /\ tensor[0].gshape = <<2, 1>>
    /\ Len(log[0]) = 1
    /\ Last(0).before.split = 1
    /\ Last(0).case = "gather"
    /\ Returned(0)
    /\ tensor[0].split = None
    /\ tensor[0].array.data = <<1, 2>>

----------------------------------------------------------------------------
(* C20: range of the split axis.  In every reachable state the split axis  *)
(* of every rank's tensor is None or an axis of the global shape; and a    *)
(* resplit call whose axis is out of range is rejected by the range check, *)
(* before anything else: it raises, having posted nothing to a collective, *)
(* with the tensor as it was before the call.                              *)

AxisInRange(shape, axis) == 0 <= axis /\ axis < Len(shape)

C20_SplitAxisInRange ==
    \A p \in Procs :
        /\ tensor[p].split = None \/ AxisInRange(tensor[p].gshape, tensor[p].split)
        /\ \A k \in 1..Len(log[p]) :
              LET e == log[p][k]
              IN  (e.axis # None /\ ~AxisInRange(e.before.gshape, e.axis)) =>
                      /\ e.case = "invalid"
                      /\ e.outcome = "ValueError"
                      /\ k = Len(log[p]) =>
                            /\ pc[p] = "raised"
                            /\ req[p] = NoReq
                            /\ tensor[p] = e.before

\* Rank 1 of 2, holding its column of the (2, 2) array split on axis 1,
\* asked for axis 2: the call raised and the tensor is as before.
C20_Witness ==
    /\ Cardinality(Procs) = 2
    /\ Len(log[1]) = 1
    /\ Last(1).axis = 2
    /\ Last(1).outcome = "ValueError"
    /\ pc[1] = "raised"
    /\ tensor[1] = Last(1).before
    /\ tensor[1].split = 1
    /\ tensor[1].gshape = <<2, 2>>
    /\ lshape(tensor[1]) = <<2, 1>>

----------------------------------------------------------------------------
(* C21: resplit works in place and returns self.  In each of its four      *)
(* cases (no-op, gather, slice, exchange) a resplit call that returns      *)
(* hands back the tensor it was called on, and that tensor carries the     *)
(* requested split axis; so the next call of a chain such as               *)
(* a.resplit(None).resplit(1) starts from the layout the previous call     *)
(* left on the one tensor.                                                 *)

C21_InPlaceReturnsSelf ==
    \A p \in Procs :
        /\ \A k \in 1..Len(log[p]) :
              /\ log[p][k].outcome = "returned" =>
                    /\ log[p][k].ret = "self"
                    /\ log[p][k].case \in {"noop", "gather", "slice", "exchange"}
              /\ (k > 1 /\ log[p][k - 1].outcome = "returned") =>
                    log[p][k].before.split = log[p][k - 1].axis
        /\ Returned(p) => tensor[p].split = Last(p).axis

\* The chain a.resplit(None).resplit(1) on rank 0 of 2, a being the (2, 2)
\* array split on axis 0: both calls returned self, which is now split on
\* axis 1.
C21_Witness ==
    /\ Cardinality(Procs) = 2
    /\ Len(log[0]) = 2
    /\ log[0][1].before.split = 0
    /\ log[0][1].before.gshape = <<2, 2>>
    /\ log[0][1].axis = None
    /\ log[0][1].case = "gather"
    /\ log[0][1].ret = "self"
    /\ log[0][2].before.split = None
    /\ log[0][2].axis = 1
    /\ log[0][2].case = "slice"
    /\ log[0][2].ret = "self"
    /\ tensor[0].split = 1
    /\ lshape(tensor[0]) = <<2, 1>>

----------------------------------------------------------------------------
(* C22: exchange descriptors.  When the current split axis S_old and the   *)
(* requested axis S_new are distinct real axes, resplit enters Alltoallv   *)
(* with send axis S_new and receive axis S_old.  The send side is the      *)
(* partition of the global extent along S_new (what each rank is to        *)
(* receive from this one); the receive side is the partition of the global *)
(* extent along S_old, the CURRENT layout (what each rank holds and sends  *)
(* along S_old), not the target distribution along S_new.  The buffer      *)
(* allocated and installed on rank r has the global shape with the S_new   *)
(* extent replaced by rank r's new-layout count, and the pieces received   *)
(* from ranks 0..n-1 fill it completely without overlap.                   *)

\* The table of counts and displacements that divides `extent` over n ranks.
PartitionTable(extent, n) ==
    [counts |-> [s \in Ranks(n) |-> Share(extent, n, s)],
     displs |-> [s \in Ranks(n) |-> SumTo([x \in Ranks(n) |-> Share(extent, n, x)], s)]]

\* The intervals [displs[s], displs[s] + counts[s]) of ranks 0..n-1 cover
\* 0..extent-1, each position once, and none reaches beyond the extent.
Tiles(counts, displs, extent, n) ==
    /\ \A s \in Ranks(n) : displs[s] >= 0 /\ displs[s] + counts[s] <= extent
    /\ \A x \in 0..(extent - 1) :
          Cardinality({s \in Ranks(n) :
                          displs[s] <= x /\ x < displs[s] + counts[s]}) = 1

\* Rank p is in the axis-to-axis case of its latest call.
Exchanging(p) ==
    /\ pc[p] \in {"Alltoallv", "redistributed"}
    /\ req[p].op = "Alltoallv"

\* The parts of the statement about the send side, the buffer and its
\* filling.
ExchangeSendAndBuffer(p) ==
    LET t  == tensor[p]
        n  == t.comm.size
        rq == req[p]
        new == PartitionTable(t.gshape[rq.axis + 1], n)
    IN  /\ rq.axis = Last(p).axis
        /\ rq.axis \in Axes /\ t.split \in Axes /\ rq.axis # t.split
        /\ rq.send_counts = new.counts
        /\ rq.send_displs = new.displs
        /\ rq.recvbuf.shape = LayoutShape(t.gshape, rq.axis, n, t.comm.rank)
        \* the piece of each sender spans the buffer along S_new
        /\ rq.send_counts[t.comm.rank] = rq.recvbuf.shape[rq.axis + 1]
        \* and the pieces tile it along the receive axis
        /\ Tiles(rq.recv_counts, rq.recv_displs,
                 rq.recvbuf.shape[rq.recv_axis + 1], n)
        \* so that no cell is left with what the fresh buffer held
        /\ (\A q \in Procs : pc[q] = "Alltoallv")
              => ExchangeInto(p, req, 0) = ExchangeInto(p, req, 1)

\* The receive side as the code computes it: the current layout, along
\* S_old.
RecvSideIsOldLayout(p) ==
    LET t   == tensor[p]
        old == PartitionTable(t.gshape[t.split + 1], t.comm.size)
    IN  /\ req[p].recv_axis = t.split
        /\ req[p].recv_counts = old.counts
        /\ req[p].recv_displs = old.displs

\* The receive side as the original statement has it: the target
\* distribution, along S_new.
RecvSideIsNewLayout(p) ==
    LET t   == tensor[p]
        new == PartitionTable(t.gshape[req[p].axis + 1], t.comm.size)
    IN  /\ req[p].recv_counts = new.counts
        /\ req[p].recv_displs = new.displs

C22_ExchangeDescriptors ==
    \A p \in Procs :
        /\ Exchanging(p) => ExchangeSendAndBuffer(p) /\ RecvSideIsOldLayout(p)
        /\ (Returned(p) /\ Last(p).case = "exchange")
              => lshape(tensor[p])
                    = LayoutShape(tensor[p].gshape, Last(p).axis,
                                  tensor[p].comm.size, tensor[p].comm.rank)

\* The statement as originally worded: the receive side describes the
\* target distribution along S_new.
C22_RecvSideDescribesTarget ==
    \A p \in Procs :
        Exchanging(p) => ExchangeSendAndBuffer(p) /\ RecvSideIsNewLayout(p)

\* Rank 0 of 2 has received its part of the (4, 5) array that goes from
\* split axis 0 to split axis 1: it sent 3 and 2 columns, received 2 and 2
\* rows, and its (4, 3) buffer holds columns 0..2.
C22_Witness ==
    /\ Cardinality(Procs) = 2
    /\ pc[0] = "redistributed"
    /\ tensor[0].gshape = <<4, 5>>
    /\ tensor[0].split = 0
    /\ tensor[0].dtype = "float32"
    /\ req[0].axis = 1
    /\ req[0].send_counts = [s \in {0, 1} |-> IF s = 0 THEN 3 ELSE 2]
    /\ req[0].recv_counts = [s \in {0, 1} |-> 2]
    /\ req[0].recv_displs = [s \in {0, 1} |-> IF s = 0 THEN 0 ELSE 2]
    /\ req[0].recvbuf.shape = <<4, 3>>
    /\ req[0].recvbuf.data = <<1, 2, 3, 6, 7, 8, 11, 12, 13, 16, 17, 18>>

----------------------------------------------------------------------------
(* C23: gather protocol step.  In the unsplit case resplit computes the    *)
(* counts and displacements of the current layout from the global extent   *)
(* along S_old and enters Allgatherv with the receive (target) axis equal  *)
(* to S_old, the old split axis, not to the requested (unsplit) axis.      *)

\* The counts and displacements a gathering rank passes are those of the
\* current layout along S_old.
GatherCountsOfCurrentLayout(p) ==
    LET t   == tensor[p]
        old == PartitionTable(t.gshape[t.split + 1], t.comm.size)
    IN  /\ req[p].recv_counts = old.counts
        /\ req[p].recv_displs = old.displs

C23_GatherTargetAxis ==
    \A p \in Procs :
        (pc[p] = "Allgatherv" /\ req[p].op = "Allgatherv")
            => /\ GatherCountsOfCurrentLayout(p)
               /\ req[p].recv_axis = tensor[p].split

----------------------------------------------------------------------------
(* C24: index-based extraction.  __getitem__ constructs its result with    *)
(* all of buffer, global shape, dtype, split, device and communicator, and *)
(* it never yields a tensor whose recorded global shape and split axis     *)
(* disagree with its local buffer: the result's local shape is the one its *)
(* global shape and split axis give its rank.                              *)

C24_GetItemResultConsistent ==
    \A p \in Procs :
        \A k \in 1..Len(item[p]) :
            LET e == item[p][k]
            IN  e.value.kind = "getitem" =>
                    /\ e.nargs = Len(InitParams)
                    /\ e.outcome # "TypeError"
                    /\ e.outcome = "returned" =>
                          lshape(e.result)
                             = LayoutShape(e.result.gshape, e.result.split,
                                           e.result.comm.size,
                                           e.result.comm.rank)

----------------------------------------------------------------------------
(* C25: branch agreement.  The case a resplit call takes is a function of  *)
(* the current split axis and the requested axis only, never of the rank   *)
(* or the local data.  So the ranks, which hold the same split axis and    *)
(* request the same axis, take the same case at each call: either each     *)
(* issues one collective of the same kind (gather, exchange) or none does  *)
(* (no-op, slice), and no rank waits in a collective that a peer has       *)
(* passed by.                                                              *)

\* The case resplit takes for split axis S_old and a requested axis in range.
CaseOf(old, new) ==
    IF new = old THEN "noop"
    ELSE IF new = None THEN "gather"
    ELSE IF old = None THEN "slice"
    ELSE "exchange"

\* The collective a case issues, if any.
CollectiveOf(case) ==
    IF case = "gather" THEN "Allgatherv"
    ELSE IF case = "exchange" THEN "Alltoallv"
    ELSE "none"

C25_BranchAgreement ==
    \A p, q \in Procs :
        /\ \A k \in 1..Len(log[p]) :
              /\ log[p][k].case # "invalid"
                    => log[p][k].case = CaseOf(log[p][k].before.split, log[p][k].axis)
              /\ k <= Len(log[q])
                    => /\ log[q][k].before.split = log[p][k].before.split
                       /\ log[q][k].axis = log[p][k].axis
                       /\ log[q][k].case = log[p][k].case
        /\ pc[p] \in {"Allgatherv", "Alltoallv"}
              => /\ pc[p] = CollectiveOf(Last(p).case)
                 /\ req[p].op = pc[p]
                 /\ Len(log[q]) <= Len(log[p])
                 /\ Len(log[q]) = Len(log[p]) => pc[q] = pc[p]
                 /\ Len(log[q]) < Len(log[p])
                       => /\ pc[q] \notin {"Allgatherv", "Alltoallv"}
                          /\ pc[q] \in {"idle", "raised"}
                                => tensor[q].split
                                     = log[p][Len(log[q]) + 1].before.split
        /\ pc[p] \in {"idle", "raised"} /\ Len(log[p]) > 0
              /\ CollectiveOf(Last(p).case) = "none"
              => req[p] = NoReq

\* Two ranks sliced their unsplit (1, 2) array along axis 0 without any
\* collective (rank 1 now holds an empty buffer) and then both entered the
\* gather of resplit(None).
C25_Witness ==
    /\ Cardinality(Procs) = 2
    /\ \A p \in Procs :
          /\ tensor[p].gshape = <<1, 2>>
          /\ Len(log[p]) = 2
          /\ log[p][1].before.split = None
          /\ log[p][1].case = "slice"
          /\ log[p][2].case = "gather"
          /\ pc[p] = "Allgatherv"
    /\ Numel(lshape(tensor[1])) = 0

----------------------------------------------------------------------------
(* C26: liveness of resplit.  When the ranks of the group call resplit     *)
(* with the same target axis on an array with consistent global shape and  *)
(* split axis, then under fair scheduling (and a transport that does not   *)
(* fault) every rank that has entered the call eventually returns from it  *)
(* with the new layout established: the collective, once entered by all,   *)
(* completes for the whole group.                                          *)

\* Rank p is inside its k-th resplit call.
InCall(p, k) ==
    /\ p \in Procs
    /\ Len(log[p]) = k
    /\ log[p][k].outcome = "pending"

\* Rank p has just returned from its k-th resplit call with the requested
\* split axis.
ReturnedFrom(p, k) ==
    /\ p \in Procs
    /\ Len(log[p]) = k
    /\ log[p][k].outcome = "returned"
    /\ pc[p] = "idle"
    /\ tensor[p].split = log[p][k].axis

C26_ResplitReturns ==
    \A p \in 0..(MaxProcs - 1), k \in 1..MaxCalls :
        InCall(p, k) ~> ReturnedFrom(p, k)

----------------------------------------------------------------------------
(* C27: path independence.  For every starting layout and every            *)
(* intermediate target S_mid, resplit(S_mid) followed by resplit(S_new)    *)
(* leaves each rank with the same local buffer and split axis as a single  *)
(* resplit(S_new) from the starting layout; in particular a direct         *)
(* axis-to-axis exchange gives each rank what a gather followed by a       *)
(* slice gives it.                                                         *)

\* The tensors the ranks held before their first call.
Started == [q \in Procs |-> log[q][1].before]

\* All ranks have returned from two calls.
TwoCallsReturned ==
    \A q \in Procs :
        /\ pc[q] = "idle"
        /\ Len(log[q]) = 2
        /\ log[q][1].outcome = "returned"
        /\ log[q][2].outcome = "returned"

C27_PathIndependent ==
    TwoCallsReturned =>
        \A p \in Procs :
            /\ ResplitCompletes(Started, log[p][2].axis)
            /\ \E g \in Garbage :
                  LET direct == ResplitResult(Started, p, log[p][2].axis, g)
                  IN  /\ tensor[p].array = direct.array
                      /\ tensor[p].split = direct.split

----------------------------------------------------------------------------
(* C28: buffer/tag consistency.  The receive buffer that replaces the      *)
(* local buffer in the gather and axis-to-axis cases has the element type  *)
(* and the device of the tensor's dtype and device tags, so that after any *)
(* resplit (as before it, and after an astype) the local buffer's element  *)
(* type equals the dtype tag.                                              *)

C28_BufferMatchesTags ==
    \A p \in Procs :
        /\ tensor[p].array.etype = tensor[p].dtype
        /\ req[p].op \in {"Allgatherv", "Alltoallv"}
              => /\ req[p].recvbuf.etype = tensor[p].dtype
                 /\ req[p].recvbuf.dev = tensor[p].device

====
